---- MODULE Spec2Model ----
(***************************************************************************)
(* Model of the UnrealScript detection-and-repair engine and of the        *)
(* editor window that drives it (UnrealScripFixer.py).                     *)
(*                                                                         *)
(* A document is a sequence of one-character strings.  Offsets are the     *)
(* 0-based offsets of the Python code; line numbers are 1-based.           *)
(***************************************************************************)
EXTENDS Integers, Sequences, FiniteSets, TLC

\* ------------------------------------------------------------------------
\* Bounds of the explored input space
\* ------------------------------------------------------------------------
MaxFrags == 3
MaxLines == 2
MaxOps   == 3

\* ------------------------------------------------------------------------
\* Characters
\* ------------------------------------------------------------------------
NL == "\n"
Space == {" ", NL}
Letters == {"a","c","d","e","f","h","i","l","m","n","o","p","r","s","t","u","v","w","x"}
Word  == Letters \cup {"1", "_"}
Chars == Word \cup Space \cup {"{", "}", "(", ")", ";", "=", "/", "*", "'", "\"", "\\", "[", "]"}

kw_class             == <<"c","l","a","s","s">>
kw_function          == <<"f","u","n","c","t","i","o","n">>
kw_event             == <<"e","v","e","n","t">>
kw_state             == <<"s","t","a","t","e">>
kw_defaultproperties == <<"d","e","f","a","u","l","t","p","r","o","p","e","r","t","i","e","s">>
kw_var               == <<"v","a","r">>
kw_struct            == <<"s","t","r","u","c","t">>
kw_enum              == <<"e","n","u","m">>
kw_cpptext           == <<"c","p","p","t","e","x","t">>
kw_replication       == <<"r","e","p","l","i","c","a","t","i","o","n">>
kw_if                == <<"i","f">>
kw_while             == <<"w","h","i","l","e">>
kw_for               == <<"f","o","r">>

\* ------------------------------------------------------------------------
\* Python string primitives
\* ------------------------------------------------------------------------
Min(S) == CHOOSE x \in S : \A y \in S : x <= y
Max(S) == CHOOSE x \in S : \A y \in S : x >= y

Clamp(k, s) == IF k < 0 THEN 0 ELSE IF k > Len(s) THEN Len(s) ELSE k
\* s[a:b], s[a:], s[:b]
Slice(s, a, b) == SubSeq(s, Clamp(a, s) + 1, Clamp(b, s))
From(s, a) == Slice(s, a, Len(s))
Upto(s, b) == Slice(s, 0, b)
\* s.count(c, a, b) and s.count(c)
CountIn(s, c, a, b) == Cardinality({k \in (Clamp(a, s) + 1)..Clamp(b, s) : s[k] = c})
Count(s, c) == CountIn(s, c, 0, Len(s))
\* s[p:p+len(w)] == w
HasAt(s, p, w) == p >= 0 /\ p + Len(w) <= Len(s) /\ SubSeq(s, p + 1, p + Len(w)) = w
EndsWith(s, w) == Len(s) >= Len(w) /\ HasAt(s, Len(s) - Len(w), w)
StartsWith(s, w) == HasAt(s, 0, w)

lstrip(s) ==
    LET ns == {k \in 1..Len(s) : s[k] \notin Space}
    IN  IF ns = {} THEN <<>> ELSE SubSeq(s, Min(ns), Len(s))
rstrip(s) ==
    LET ns == {k \in 1..Len(s) : s[k] \notin Space}
    IN  IF ns = {} THEN <<>> ELSE SubSeq(s, 1, Max(ns))
strip(s) == lstrip(rstrip(s))
\* s.rstrip("\n")
rstrip_nl(s) ==
    LET ns == {k \in 1..Len(s) : s[k] # NL}
    IN  IF ns = {} THEN <<>> ELSE SubSeq(s, 1, Max(ns))

\* s.splitlines(True): the lines of s, each keeping its line break
RECURSIVE splitlines(_)
splitlines(s) ==
    IF s = <<>> THEN <<>>
    ELSE LET nl == {k \in 1..Len(s) : s[k] = NL}
         IN  IF nl = {} THEN <<s>>
             ELSE <<SubSeq(s, 1, Min(nl))>> \o splitlines(SubSeq(s, Min(nl) + 1, Len(s)))

\* "".join(lines)
RECURSIVE join(_)
join(lines) == IF lines = <<>> THEN <<>> ELSE Head(lines) \o join(Tail(lines))

\* offs at the start of line i (1-based index into lines): sum of len(line) before it
RECURSIVE offs_of(_, _)
offs_of(lines, i) == IF i <= 1 THEN 0 ELSE offs_of(lines, i - 1) + Len(lines[i - 1])

\* list.insert(i, x)
list_insert(l, i, x) ==
    LET k == IF i > Len(l) THEN Len(l) ELSE i
    IN  SubSeq(l, 1, k) \o <<x>> \o SubSeq(l, k + 1, Len(l))

\* ------------------------------------------------------------------------
\* Regular-expression building blocks: each maps a set of start offsets to
\* the set of offsets at which the sub-pattern can end.
\* ------------------------------------------------------------------------
RLit(s, P, w)   == {p + Len(w) : p \in {q \in P : HasAt(s, q, w)}}
RClass(s, P, C) == {p + 1 : p \in {q \in P : q < Len(s) /\ s[q + 1] \in C}}
RStar(s, P, C)  ==
    IF P = {} THEN {}
    ELSE {q \in 0..Len(s) : \E p \in P : p <= q /\ \A k \in (p + 1)..q : s[k] \in C}
RPlus(s, P, C)  == RStar(s, RClass(s, P, C), C)
\* '$' (no MULTILINE): at the end, or just before a final line break
AtDollar(s, p)  == p = Len(s) \/ (p = Len(s) - 1 /\ s[Len(s)] = NL)
\* '\b' at offset p
WordBoundary(s, p) ==
    (p > 0 /\ p <= Len(s) /\ s[p] \in Word) # (p >= 0 /\ p < Len(s) /\ s[p + 1] \in Word)
\* '(?m)^' at offset p
LineStart(s, p) == p = 0 \/ (p > 0 /\ p <= Len(s) /\ s[p] = NL)

\* RULES["regex"]["top_level_tokens"]
TopLevelKeywords ==
    {kw_class, kw_function, kw_event, kw_state, kw_defaultproperties,
     kw_var, kw_struct, kw_enum, kw_cpptext, kw_replication}

TopLevelMatchAt(s, p) ==
    /\ LineStart(s, p)
    /\ \E q \in RStar(s, {p}, Space) : \E kw \in TopLevelKeywords :
          HasAt(s, q, kw) /\ WordBoundary(s, q + Len(kw))

\* re.search(top_level_tokens, s).start(), or -1 when there is no match
TOP_LEVEL_TOKENS(s) ==
    LET M == {p \in 0..Len(s) : TopLevelMatchAt(s, p)}
    IN  IF M = {} THEN -1 ELSE Min(M)

\* CONTROL_LINE.search(line): ^\s*(if|while|for)\s*\(
CONTROL_LINE(line) ==
    LET p1 == RStar(line, {0}, Space)
        p2 == RLit(line, p1, kw_if) \cup RLit(line, p1, kw_while) \cup RLit(line, p1, kw_for)
        p3 == RLit(line, RStar(line, p2, Space), <<"(">>)
    IN  p3 # {}

\* ------------------------------------------------------------------------
\* Issue model
\* ------------------------------------------------------------------------
NoFix == [fn |-> "None", arg |-> 0]

\* Issue(kind, message, line, span, apply_fn); apply_fn names the repair
\* closure and the value it captured at detection time.
Issue(kind, tmpl, what, line, span, apply_fn) ==
    [kind |-> kind, message |-> [tmpl |-> tmpl, what |-> what, at |-> line],
     line |-> line, span |-> span, apply_fn |-> apply_fn]

HasFix(it) == it.apply_fn.fn # "None"

\* the integers of S in increasing order
RECURSIVE Ascending(_)
Ascending(S) == IF S = {} THEN <<>> ELSE <<Min(S)>> \o Ascending(S \ {Min(S)})

\* first offset of w in s, or -1
Find(s, w) ==
    LET M == {p \in 0..Len(s) : HasAt(s, p, w)}
    IN  IF M = {} THEN -1 ELSE Min(M)

AnyBut(X) == Chars \ X

\* ------------------------------------------------------------------------
\* find_cpptext_missing_brace
\* ------------------------------------------------------------------------
\* re.search(r"\bcpptext\b", line)
HasCpptext(line) ==
    \E p \in 0..Len(line) :
        HasAt(line, p, kw_cpptext) /\ WordBoundary(line, p) /\ WordBoundary(line, p + Len(kw_cpptext))

\* re.match(r"^\s*(//.*)?$", line)
BlankOrComment(line) ==
    LET p1 == RStar(line, {0}, Space)
        p2 == p1 \cup RStar(line, RLit(line, p1, <<"/", "/">>), AnyBut({NL}))
    IN  \E p \in p2 : AtDollar(line, p)

\* re.match(r"^\s*\{", line)
StartsWithBrace(line) == RLit(line, RStar(line, {0}, Space), <<"{">>) # {}

CpptextNextLine(lines, i) ==
    LET J == {j \in (i + 1)..Len(lines) : ~BlankOrComment(lines[j])}
    IN  IF J = {} THEN <<>> ELSE lines[Min(J)]

CpptextFlagged(lines, i) ==
    /\ HasCpptext(lines[i])
    /\ Count(lines[i], "{") = 0
    /\ ~StartsWithBrace(CpptextNextLine(lines, i))

find_cpptext_missing_brace(doc) ==
    LET lines == splitlines(doc)
        idx   == Ascending({i \in 1..Len(lines) : CpptextFlagged(lines, i)})
    IN  [k \in 1..Len(idx) |->
            Issue("cpptext-brace", "Missing '{' after 'cpptext' at line", "", idx[k],
                  <<offs_of(lines, idx[k]), offs_of(lines, idx[k]) + Len(lines[idx[k]])>>,
                  [fn |-> "cpptext", arg |-> idx[k]])]

\* mutant of cpptext_apply: the inserted brace has no line break
cpptext_apply_NoLineBreak(doc_in, anchor) ==
    join(list_insert(splitlines(doc_in), anchor, <<"{">>))

cpptext_apply(doc_in, anchor) ==
    join(list_insert(splitlines(doc_in), anchor, <<"{", NL>>))

\* ------------------------------------------------------------------------
\* safe_close_balance
\* ------------------------------------------------------------------------
Min2(a, b) == IF a < b THEN a ELSE b
Max2(a, b) == IF a > b THEN a ELSE b

\* mutant of safe_close_balance: the repair is offered for one missing '}' only
safe_close_balance_OnlyOne(doc) ==
    LET open_count == Count(doc, "{") - Count(doc, "}")
    IN  IF open_count < 0
        THEN <<Issue("brace-balance", "Too many '}' braces found.", "", 1,
                     <<0, Min2(50, Len(doc))>>, NoFix)>>
        ELSE IF open_count = 1
        THEN <<Issue("brace-balance", "Unbalanced braces: more '{' than '}'.", "", 1,
                     <<0, Min2(50, Len(doc))>>, [fn |-> "brace", arg |-> 0])>>
        ELSE IF open_count > 1
        THEN <<Issue("brace-balance", "Unbalanced braces: more '{' than '}'.", "", 1,
                     <<0, Min2(50, Len(doc))>>, NoFix)>>
        ELSE <<>>

safe_close_balance(doc) ==
    LET open_count == Count(doc, "{") - Count(doc, "}")
    IN  IF open_count < 0
        THEN <<Issue("brace-balance", "Too many '}' braces found.", "", 1,
                     <<0, Min2(50, Len(doc))>>, NoFix)>>
        ELSE IF open_count > 0
        THEN <<Issue("brace-balance", "Unbalanced braces: more '{' than '}'.", "", 1,
                     <<0, Min2(50, Len(doc))>>, [fn |-> "brace", arg |-> 0])>>
        ELSE <<>>

\* mutant of brace_apply: the '}' goes to the end of the text
brace_apply_AtEnd(doc_in) == doc_in \o <<"}", NL>>

brace_apply(doc_in) ==
    LET m == TOP_LEVEL_TOKENS(doc_in)
        insert_at == IF m >= 0 THEN m ELSE Len(doc_in)
    IN  Upto(doc_in, insert_at) \o <<"}", NL>> \o From(doc_in, insert_at)

\* ------------------------------------------------------------------------
\* check_defaultproperties
\* ------------------------------------------------------------------------
\* starts of the matches of re.finditer(r"\bdefaultproperties\b", doc)
DefaultpropsMatches(doc) ==
    {p \in 0..Len(doc) :
        /\ HasAt(doc, p, kw_defaultproperties)
        /\ WordBoundary(doc, p)
        /\ WordBoundary(doc, p + Len(kw_defaultproperties))}

\* re.match(r"\s*\{", doc[e:])
FollowedByBrace(doc, e) == RLit(doc, RStar(doc, {e}, Space), <<"{">>) # {}

check_defaultproperties(doc) ==
    LET L   == Len(kw_defaultproperties)
        idx == Ascending({p \in DefaultpropsMatches(doc) : ~FollowedByBrace(doc, p + L)})
    IN  [k \in 1..Len(idx) |->
            Issue("defaultprops-brace", "'defaultproperties' should be followed by '{...}' at line", "",
                  CountIn(doc, NL, 0, idx[k]) + 1,
                  <<Max2(0, idx[k] - 5), Min2(Len(doc), idx[k] + L + 5)>>,
                  [fn |-> "defaultprops", arg |-> idx[k] + L])]

\* mutant of defaultprops_apply: the block is inserted without the blank
defaultprops_apply_NoBlank(doc_in, pos) ==
    Upto(doc_in, pos) \o <<"{", NL, "}", NL>> \o From(doc_in, pos)

defaultprops_apply(doc_in, pos) ==
    Upto(doc_in, pos) \o <<" ", "{", NL, "}", NL>> \o From(doc_in, pos)

\* ------------------------------------------------------------------------
\* check_semicolons_strict
\* ------------------------------------------------------------------------
\* one pass of the group (\s+\w+|\([^)]*\))
VarGroupStep(s, P) ==
    RPlus(s, RPlus(s, P, Space), Word)
        \cup RLit(s, RStar(s, RLit(s, P, <<"(">>), AnyBut({")"})), <<")">>)

RECURSIVE VarGroupStar(_, _)
VarGroupStar(s, P) ==
    LET Q == P \cup VarGroupStep(s, P)
    IN  IF Q = P THEN P ELSE VarGroupStar(s, Q)

\* re.match(r"^(var(\s+\w+|\([^)]*\))*)\s+[\w\[\]]+(\s*=\s*[^;]+)?$", stripped)
var_decl(stripped) ==
    LET p1 == VarGroupStar(stripped, RLit(stripped, {0}, kw_var))
        p2 == RPlus(stripped, RPlus(stripped, p1, Space), Word \cup {"[", "]"})
        p3 == RPlus(stripped, RStar(stripped, RLit(stripped, RStar(stripped, p2, Space), <<"=">>), Space),
                    AnyBut({";"}))
    IN  \E p \in p2 \cup p3 : AtDollar(stripped, p)

\* re.match(r"^[A-Za-z_]\w*\s*=\s*[^;]+$", stripped)
assign(stripped) ==
    LET p1 == RStar(stripped, RClass(stripped, {0}, Letters \cup {"_"}), Word)
        p2 == RLit(stripped, RStar(stripped, p1, Space), <<"=">>)
        p3 == RPlus(stripped, RStar(stripped, p2, Space), AnyBut({";"}))
    IN  \E p \in p3 : AtDollar(stripped, p)

SemicolonFlagged(line) ==
    LET stripped == strip(line)
    IN  /\ ~(\/ stripped = <<>>
             \/ StartsWith(stripped, <<"/", "/">>)
             \/ EndsWith(stripped, <<"{">>)
             \/ EndsWith(stripped, <<"}">>)
             \/ StartsWith(stripped, <<"/", "*">>))
        /\ (var_decl(stripped) \/ assign(stripped))
        /\ ~EndsWith(stripped, <<";">>)

check_semicolons_strict(doc) ==
    LET lines == splitlines(doc)
        idx   == Ascending({i \in 1..Len(lines) : SemicolonFlagged(lines[i])})
    IN  [k \in 1..Len(idx) |->
            Issue("semicolon-missing", "Likely missing ';' at line", "", idx[k],
                  <<offs_of(lines, idx[k]), offs_of(lines, idx[k]) + Len(lines[idx[k]])>>,
                  [fn |-> "semicolon", arg |-> idx[k]])]

\* the new d[idx] of check_semicolons_strict.apply
SemicolonLine(l) ==
    LET c == Find(l, <<"/", "/">>)
    IN  IF c >= 0
        THEN rstrip(rstrip_nl(Upto(l, c))) \o <<";">> \o rstrip_nl(From(l, c)) \o <<NL>>
        ELSE rstrip(rstrip_nl(l)) \o <<";", NL>>

\* mutant of semicolon_apply: idx is one line too early
semicolon_apply_OffByOne(doc_in, anchor) ==
    LET d == splitlines(doc_in)
    IN  IF anchor - 1 >= 1 /\ anchor - 1 <= Len(d)
        THEN join([d EXCEPT ![anchor - 1] = SemicolonLine(d[anchor - 1])])
        ELSE join(d)

semicolon_apply(doc_in, anchor) ==
    LET d == splitlines(doc_in)
    IN  IF anchor - 1 < Len(d)
        THEN IF EndsWith(rstrip(d[anchor]), <<";">>)
             THEN doc_in
             ELSE join([d EXCEPT ![anchor] = SemicolonLine(d[anchor])])
        ELSE join(d)

\* ------------------------------------------------------------------------
\* extended_control_paren_balance
\* ------------------------------------------------------------------------
ControlFlagged(line) ==
    CONTROL_LINE(line) /\ Count(line, "(") - Count(line, ")") = 1

extended_control_paren_balance(doc) ==
    LET lines == splitlines(doc)
        idx   == Ascending({i \in 1..Len(lines) : ControlFlagged(lines[i])})
    IN  [k \in 1..Len(idx) |->
            Issue("paren-control-close", "Control statement may be missing a ')' at line", "", idx[k],
                  <<offs_of(lines, idx[k]), offs_of(lines, idx[k]) + Len(lines[idx[k]])>>,
                  [fn |-> "control", arg |-> idx[k]])]

\* d[idx] raises IndexError when the text has fewer lines than the anchor
control_raises(doc_in, anchor) == anchor - 1 >= Len(splitlines(doc_in))

\* the new d[idx] of extended_control_paren_balance.apply
ControlLine(l) ==
    LET s == rstrip_nl(l)
        insert_at == Find(s, <<"/", "/">>)
    IN  IF insert_at >= 0
        THEN rstrip(Upto(s, insert_at)) \o <<")", " ">> \o From(s, insert_at) \o <<NL>>
        ELSE rstrip(s) \o <<")", NL>>

control_apply(doc_in, anchor) ==
    LET d == splitlines(doc_in)
    IN  join([d EXCEPT ![anchor] = ControlLine(d[anchor])])

\* ------------------------------------------------------------------------
\* extended_struct_enum_closer
\* ------------------------------------------------------------------------
\* ends of the keyword in (?im)^\s*(struct|enum)\b tried at offset p
StructKeywordEnds(s, p) ==
    IF ~LineStart(s, p) THEN {}
    ELSE LET q == RStar(s, {p}, Space)
         IN  {e \in RLit(s, q, kw_struct) \cup RLit(s, q, kw_enum) : WordBoundary(s, e)}

\* ends of the whole header match [^\n]*\{ tried at offset p
StructHeaderEnds(s, p) ==
    RLit(s, RStar(s, StructKeywordEnds(s, p), AnyBut({NL})), <<"{">>)

\* m.group(1)
StructGroup(s, p) ==
    IF RLit(s, RStar(s, {p}, Space), kw_struct) # {} THEN "struct" ELSE "enum"

\* re.finditer: leftmost match at or after from, greedy end, then on from its end
RECURSIVE StructMatches(_, _)
StructMatches(s, from) ==
    LET M == {p \in from..Len(s) : StructHeaderEnds(s, p) # {}}
    IN  IF M = {} THEN <<>>
        ELSE LET p == Min(M)
                 e == Max(StructHeaderEnds(s, p))
             IN  <<[start |-> p, end |-> e, group |-> StructGroup(s, p)]>> \o StructMatches(s, e)

\* the while loop: <<pos, count>> when it stops
RECURSIVE BraceWalk(_, _, _)
BraceWalk(text, pos, count) ==
    LET B == {k \in pos..(Len(text) - 1) : text[k + 1] \in {"{", "}"}}
    IN  IF B = {} THEN <<pos, count>>
        ELSE LET k  == Min(B)
                 c2 == IF text[k + 1] = "{" THEN count + 1 ELSE count - 1
             IN  IF c2 = 0 THEN <<k + 1, 0>> ELSE BraceWalk(text, k + 1, c2)

\* mutant of StructInsertAt: the '}' always goes to the end of the document
StructInsertAt_AtEnd(text, pos) == Len(text)

StructInsertAt(text, pos) ==
    LET tl == TOP_LEVEL_TOKENS(From(text, pos))
    IN  IF tl >= 0 THEN pos + tl ELSE Len(text)

extended_struct_enum_closer(doc) ==
    LET ms  == StructMatches(doc, 0)
        idx == Ascending({k \in 1..Len(ms) : BraceWalk(doc, ms[k].end, 1)[2] # 0})
    IN  [k \in 1..Len(idx) |->
            LET m == ms[idx[k]]
            IN  Issue("struct-enum-close", "Missing '}' to close block starting at line", m.group,
                      CountIn(doc, NL, 0, m.start) + 1,
                      <<m.start, m.end>>,
                      [fn |-> "struct", arg |-> StructInsertAt(doc, BraceWalk(doc, m.end, 1)[1])])]

struct_apply(doc_in, ia) ==
    Upto(doc_in, ia) \o <<"}", NL>> \o From(doc_in, ia)

\* ------------------------------------------------------------------------
\* Lexical skipper (shared by the two unmatched-paren scanners)
\* ------------------------------------------------------------------------
\* skip_line_comment(j)
skip_line_comment(doc, j) ==
    LET S == {k \in j..(Len(doc) - 1) : doc[k + 1] = NL}
    IN  IF S = {} THEN Max2(j, Len(doc)) ELSE Min(S)

\* mutant of block_loop: an unterminated comment ends where the loop stops
RECURSIVE block_loop_StopsShort(_, _, _)
block_loop_StopsShort(doc, j, line) ==
    IF j + 1 < Len(doc) /\ ~(doc[j + 1] = "*" /\ doc[j + 2] = "/")
    THEN block_loop_StopsShort(doc, j + 1, IF doc[j + 1] = NL THEN line + 1 ELSE line)
    ELSE <<IF j + 1 < Len(doc) THEN j + 2 ELSE j, line>>

\* skip_block_comment(j): <<new cursor, new line>>
RECURSIVE block_loop(_, _, _)
block_loop(doc, j, line) ==
    IF j + 1 < Len(doc) /\ ~(doc[j + 1] = "*" /\ doc[j + 2] = "/")
    THEN block_loop(doc, j + 1, IF doc[j + 1] = NL THEN line + 1 ELSE line)
    ELSE <<Min2(j + 2, Len(doc)), line>>

skip_block_comment(doc, j, line) == block_loop(doc, j + 2, line)

\* mutant of string_loop: a backslash does not take the next character with it
RECURSIVE string_loop_NoEscape(_, _, _, _)
string_loop_NoEscape(doc, j, quote, line) ==
    IF j < Len(doc)
    THEN IF doc[j + 1] = quote THEN <<j + 1, line>>
         ELSE string_loop_NoEscape(doc, j + 1, quote, IF doc[j + 1] = NL THEN line + 1 ELSE line)
    ELSE <<j, line>>

\* skip_string(j, quote): <<new cursor, new line>>
RECURSIVE string_loop(_, _, _, _)
string_loop(doc, j, quote, line) ==
    IF j < Len(doc)
    THEN IF doc[j + 1] = "\\" THEN string_loop(doc, j + 2, quote, line)
         ELSE IF doc[j + 1] = quote THEN <<j + 1, line>>
         ELSE string_loop(doc, j + 1, quote, IF doc[j + 1] = NL THEN line + 1 ELSE line)
    ELSE <<j, line>>

skip_string(doc, j, quote, line) == string_loop(doc, j + 1, quote, line)

\* ------------------------------------------------------------------------
\* extended_unmatched_close_paren
\* ------------------------------------------------------------------------
RECURSIVE close_loop(_, _, _, _)
close_loop(doc, i, depth, line) ==
    IF i >= Len(doc) THEN <<>>
    ELSE LET c == doc[i + 1]
         IN  IF c = NL THEN close_loop(doc, i + 1, depth, line + 1)
             ELSE IF c = "/" /\ i + 1 < Len(doc) /\ doc[i + 2] = "/"
             THEN close_loop(doc, skip_line_comment(doc, i + 2), depth, line)
             ELSE IF c = "/" /\ i + 1 < Len(doc) /\ doc[i + 2] = "*"
             THEN LET r == skip_block_comment(doc, i, line) IN close_loop(doc, r[1], depth, r[2])
             ELSE IF c \in {"'", "\""}
             THEN LET r == skip_string(doc, i, c, line) IN close_loop(doc, r[1], depth, r[2])
             ELSE IF c = "(" THEN close_loop(doc, i + 1, depth + 1, line)
             ELSE IF c = ")"
             THEN IF depth = 0
                  THEN <<Issue("paren-extra-close", "Unmatched ')' at line", "", line,
                               <<i, i + 1>>, [fn |-> "close", arg |-> i])>>
                  ELSE close_loop(doc, i + 1, depth - 1, line)
             ELSE close_loop(doc, i + 1, depth, line)

extended_unmatched_close_paren(doc) == close_loop(doc, 0, 0, 1)

\* doc_in[:pos] + doc_in[pos+1:]
delete_apply(doc_in, pos) == Upto(doc_in, pos) \o From(doc_in, pos + 1)

\* ------------------------------------------------------------------------
\* extended_unmatched_open_paren
\* ------------------------------------------------------------------------
\* the stack of (pos, line) when the loop ends
RECURSIVE open_loop(_, _, _, _)
open_loop(doc, i, stack, line) ==
    IF i >= Len(doc) THEN stack
    ELSE LET c == doc[i + 1]
         IN  IF c = NL THEN open_loop(doc, i + 1, stack, line + 1)
             ELSE IF c = "/" /\ i + 1 < Len(doc) /\ doc[i + 2] = "/"
             THEN open_loop(doc, skip_line_comment(doc, i + 2), stack, line)
             ELSE IF c = "/" /\ i + 1 < Len(doc) /\ doc[i + 2] = "*"
             THEN LET r == skip_block_comment(doc, i, line) IN open_loop(doc, r[1], stack, r[2])
             ELSE IF c \in {"'", "\""}
             THEN LET r == skip_string(doc, i, c, line) IN open_loop(doc, r[1], stack, r[2])
             ELSE IF c = "(" THEN open_loop(doc, i + 1, Append(stack, <<i, line>>), line)
             ELSE IF c = ")"
             THEN open_loop(doc, i + 1, IF stack # <<>> THEN SubSeq(stack, 1, Len(stack) - 1) ELSE stack, line)
             ELSE open_loop(doc, i + 1, stack, line)

\* mutant of extended_unmatched_open_paren: the leftmost unclosed '(' is reported
extended_unmatched_open_paren_Leftmost(doc) ==
    LET stack == open_loop(doc, 0, <<>>, 1)
    IN  IF stack = <<>> THEN <<>>
        ELSE LET top == stack[1]
             IN  <<Issue("paren-extra-open", "Unmatched '(' at line", "", top[2],
                         <<top[1], top[1] + 1>>, [fn |-> "open", arg |-> top[1]])>>

extended_unmatched_open_paren(doc) ==
    LET stack == open_loop(doc, 0, <<>>, 1)
    IN  IF stack = <<>> THEN <<>>
        ELSE LET top == stack[Len(stack)]
             IN  <<Issue("paren-extra-open", "Unmatched '(' at line", "", top[2],
                         <<top[1], top[1] + 1>>, [fn |-> "open", arg |-> top[1]])>>

\* ------------------------------------------------------------------------
\* Scanning
\* ------------------------------------------------------------------------
\* mutant of Key: the span is left out of the key
Key_NoSpan(it) == <<it.kind, it.line, it.message>>

\* key = (it.kind, it.line, it.message, it.span)
Key(it) == <<it.kind, it.line, it.message, it.span>>

\* the de-dup loop: keep the first issue of every key, in order
RECURSIVE Dedup(_)
Dedup(its) ==
    IF its = <<>> THEN <<>>
    ELSE LET res == Dedup(SubSeq(its, 1, Len(its) - 1))
             it  == its[Len(its)]
         IN  IF \E k \in 1..Len(res) : Key(res[k]) = Key(it) THEN res ELSE Append(res, it)

\* mutant of paren_balance: the message names the wrong side
paren_balance_WrongSide(doc) ==
    LET open_p  == Count(doc, "(")
        close_p == Count(doc, ")")
    IN  IF open_p # close_p
        THEN <<Issue("paren-balance",
                     IF open_p - close_p < 0 THEN "Unbalanced parentheses: More '(' than ')'."
                                             ELSE "Unbalanced parentheses: More ')' than '('.",
                     "", 1, <<0, Min2(50, Len(doc))>>, NoFix)>>
        ELSE <<>>

\* the informational whole-document paren count
paren_balance(doc) ==
    LET open_p  == Count(doc, "(")
        close_p == Count(doc, ")")
    IN  IF open_p # close_p
        THEN <<Issue("paren-balance",
                     IF open_p - close_p > 0 THEN "Unbalanced parentheses: More '(' than ')'."
                                             ELSE "Unbalanced parentheses: More ')' than '('.",
                     "", 1, <<0, Min2(50, Len(doc))>>, NoFix)>>
        ELSE <<>>

\* mutant of DetectorRun: the extended detectors run in every mode
DetectorRun_AlwaysExtended(doc, extended) ==
    find_cpptext_missing_brace(doc)
        \o safe_close_balance(doc)
        \o check_defaultproperties(doc)
        \o check_semicolons_strict(doc)
        \o paren_balance(doc)
        \o extended_control_paren_balance(doc)
        \o extended_struct_enum_closer(doc)
        \o extended_unmatched_close_paren(doc)

\* the issues list of scan_doc_for_issues before the de-dup loop
DetectorRun(doc, extended) ==
    find_cpptext_missing_brace(doc)
        \o safe_close_balance(doc)
        \o check_defaultproperties(doc)
        \o check_semicolons_strict(doc)
        \o paren_balance(doc)
        \o (IF extended
            THEN extended_control_paren_balance(doc)
                     \o extended_struct_enum_closer(doc)
                     \o extended_unmatched_close_paren(doc)
            ELSE <<>>)

scan_doc_for_issues(doc, extended) == Dedup(DetectorRun(doc, extended))

\* the issues list every caller builds: scan_doc_for_issues, then the
\* unmatched '(' detector when its toggle is on
ScanWithToggle(doc, extended, unmatched_open) ==
    scan_doc_for_issues(doc, extended)
        \o (IF unmatched_open THEN extended_unmatched_open_paren(doc) ELSE <<>>)

\* self.issues after MainWindow.scan_now
scan_now(doc, extended, unmatched_open) == Dedup(ScanWithToggle(doc, extended, unmatched_open))

\* ------------------------------------------------------------------------
\* Repairs
\* ------------------------------------------------------------------------
\* it.apply_fn(doc_in) raises
Raises(it, doc_in) == it.apply_fn.fn = "control" /\ control_raises(doc_in, it.apply_fn.arg)

\* it.apply_fn(doc_in), when it does not raise
apply_fn(it, doc_in) ==
    CASE it.apply_fn.fn = "cpptext"      -> cpptext_apply(doc_in, it.apply_fn.arg)
      [] it.apply_fn.fn = "brace"        -> brace_apply(doc_in)
      [] it.apply_fn.fn = "defaultprops" -> defaultprops_apply(doc_in, it.apply_fn.arg)
      [] it.apply_fn.fn = "semicolon"    -> semicolon_apply(doc_in, it.apply_fn.arg)
      [] it.apply_fn.fn = "control"      -> control_apply(doc_in, it.apply_fn.arg)
      [] it.apply_fn.fn = "struct"       -> struct_apply(doc_in, it.apply_fn.arg)
      [] it.apply_fn.fn = "close"        -> delete_apply(doc_in, it.apply_fn.arg)
      [] it.apply_fn.fn = "open"         -> delete_apply(doc_in, it.apply_fn.arg)

\* try: text = it.apply_fn(text) / except Exception: pass
TryApply(it, txt) == IF Raises(it, txt) THEN txt ELSE apply_fn(it, txt)

\* mutant of ApplyLoop: the first repair that raises ends the loop
RECURSIVE ApplyLoop_StopAtRaise(_, _)
ApplyLoop_StopAtRaise(its, txt) ==
    IF its = <<>> THEN <<>>
    ELSE IF HasFix(Head(its))
         THEN IF Raises(Head(its), txt)
              THEN <<[it |-> Head(its), before |-> txt, after |-> txt]>>
              ELSE <<[it |-> Head(its), before |-> txt, after |-> apply_fn(Head(its), txt)]>>
                       \o ApplyLoop_StopAtRaise(Tail(its), apply_fn(Head(its), txt))
         ELSE ApplyLoop_StopAtRaise(Tail(its), txt)

\* for it in its: if it.apply_fn: try: text = it.apply_fn(text) ... -- the
\* log of the loop: one entry per call of an apply_fn, with the text it was
\* given and the text the loop went on with
RECURSIVE ApplyLoop(_, _)
ApplyLoop(its, txt) ==
    IF its = <<>> THEN <<>>
    ELSE IF HasFix(Head(its))
         THEN <<[it |-> Head(its), before |-> txt, after |-> TryApply(Head(its), txt)]>>
                  \o ApplyLoop(Tail(its), TryApply(Head(its), txt))
         ELSE ApplyLoop(Tail(its), txt)

\* the text when the loop is over
LoopResult(log, txt) == IF log = <<>> THEN txt ELSE log[Len(log)].after

\* auto_issues = [i for i in self.issues if i.apply_fn]
auto_issues(its) == SelectSeq(its, HasFix)

\* MainWindow._apply_autofixes(text)
apply_autofixes(txt, extended, unmatched_open) ==
    LoopResult(ApplyLoop(ScanWithToggle(txt, extended, unmatched_open), txt), txt)

\* ------------------------------------------------------------------------
\* Input documents
\* ------------------------------------------------------------------------
\* the files the engine is run on: up to MaxFrags fragments, concatenated
Fragments ==
    {<<NL>>, kw_cpptext, kw_defaultproperties, kw_struct \o <<"{">>,
     <<"x", "=", "1">>, kw_if \o <<"(", "x">>, <<")">>, <<"}">>, <<"/", "/">>}

RECURSIVE DocsOf(_)
DocsOf(k) ==
    IF k = 0 THEN {<<>>}
    ELSE LET D == DocsOf(k - 1) IN D \cup {d \o f : d \in D, f \in Fragments}

Docs == DocsOf(MaxFrags)

\* the files opened in the window: up to MaxLines lines
Lines ==
    {kw_struct \o <<"{", NL>>, <<"x", "=", "1", NL>>, kw_if \o <<"(", "x", NL>>, <<")", NL>>}

RECURSIVE WindowDocsOf(_)
WindowDocsOf(k) ==
    IF k = 0 THEN {<<>>}
    ELSE LET D == WindowDocsOf(k - 1) IN D \cup {d \o l : d \in D, l \in Lines}

WindowDocs == WindowDocsOf(MaxLines)

\* ------------------------------------------------------------------------
\* The editor window
\* ------------------------------------------------------------------------
VARIABLES
    text,               \* self.editor.toPlainText()
    original_text,      \* self.original_text: the content of the loaded file
    strict_cb,          \* self.strict_cb.isChecked()
    extended_cb,        \* self.extended_cb.isChecked()
    unmatched_open_cb,  \* self.unmatched_open_cb.isChecked()
    issues,             \* self.issues
    ops,                \* number of operations of the user so far
    last                \* record of the last operation (history)

vars == <<text, original_text, strict_cb, extended_cb, unmatched_open_cb, issues, ops, last>>

\* op: the operation; pre: the text it started from; used: the issue list it
\* worked from; row: the selected row (0: none); log: the log of its repair
\* loop; out: the text it produced
Last(op, pre, used, row, log, out) ==
    [op |-> op, pre |-> pre, used |-> used, row |-> row, log |-> log, out |-> out]

\* MainWindow.load_file(path) for a file with content d, in the given mode
Loaded(d, strict, extended, unmatched_open) ==
    /\ text = d
    /\ original_text = d
    /\ strict_cb = strict
    /\ extended_cb = extended
    /\ unmatched_open_cb = unmatched_open
    /\ issues = scan_now(d, extended, unmatched_open)
    /\ ops = 0
    /\ last = Last("load_file", d, <<>>, 0, <<>>, d)

\* A file has been opened in the window as MainWindow.__init__ sets it up
Init == \E d \in WindowDocs : Loaded(d, TRUE, FALSE, FALSE)

\* The user clicks the Strict check box: _on_mode_changed with sender strict_cb
ToggleStrict ==
    /\ ops < MaxOps
    /\ ops' = ops + 1
    /\ strict_cb' = ~strict_cb
    /\ extended_cb' = IF strict_cb' THEN FALSE ELSE extended_cb
    /\ issues' = scan_now(text, extended_cb', unmatched_open_cb)
    /\ last' = Last("mode_changed", text, <<>>, 0, <<>>, text)
    /\ UNCHANGED <<text, original_text, unmatched_open_cb>>

\* mutant of ToggleExtended: checking Extended leaves Strict as it is
ToggleExtended_KeepsStrict ==
    /\ ops < MaxOps
    /\ ops' = ops + 1
    /\ extended_cb' = ~extended_cb
    /\ issues' = scan_now(text, extended_cb', unmatched_open_cb)
    /\ last' = Last("mode_changed", text, <<>>, 0, <<>>, text)
    /\ UNCHANGED <<text, original_text, strict_cb, unmatched_open_cb>>

\* The user clicks the Extended check box: _on_mode_changed with sender extended_cb
ToggleExtended ==
    /\ ops < MaxOps
    /\ ops' = ops + 1
    /\ extended_cb' = ~extended_cb
    /\ strict_cb' = IF extended_cb' THEN FALSE ELSE strict_cb
    /\ issues' = scan_now(text, extended_cb', unmatched_open_cb)
    /\ last' = Last("mode_changed", text, <<>>, 0, <<>>, text)
    /\ UNCHANGED <<text, original_text, unmatched_open_cb>>

\* The user clicks the unmatched '(' check box
ToggleUnmatchedOpen ==
    /\ ops < MaxOps
    /\ ops' = ops + 1
    /\ unmatched_open_cb' = ~unmatched_open_cb
    /\ issues' = scan_now(text, extended_cb, unmatched_open_cb')
    /\ last' = Last("mode_changed", text, <<>>, 0, <<>>, text)
    /\ UNCHANGED <<text, original_text, strict_cb, extended_cb>>

\* The user deletes the last line in the editor; nothing re-scans
EditText ==
    /\ ops < MaxOps
    /\ text # <<>>
    /\ LET d == splitlines(text) IN text' = join(SubSeq(d, 1, Len(d) - 1))
    /\ ops' = ops + 1
    /\ last' = Last("edit", text, <<>>, 0, <<>>, text')
    /\ UNCHANGED <<original_text, strict_cb, extended_cb, unmatched_open_cb, issues>>

\* MainWindow.apply_selected, the user confirming the prompt; an exception
\* of the repair leaves the handler before the editor is written
ApplySelected ==
    \E row \in 1..Len(issues) :
        /\ ops < MaxOps
        /\ ops' = ops + 1
        /\ HasFix(issues[row])
        /\ IF Raises(issues[row], text)
           THEN /\ last' = Last("apply_selected_raised", text, issues, row, <<>>, text)
                /\ UNCHANGED <<text, issues>>
           ELSE /\ text' = apply_fn(issues[row], text)
                /\ issues' = scan_now(text', extended_cb, unmatched_open_cb)
                /\ last' = Last("apply_selected", text, issues, row, <<>>, text')
        /\ UNCHANGED <<original_text, strict_cb, extended_cb, unmatched_open_cb>>

\* MainWindow.apply_all, the user confirming the prompt
ApplyAll ==
    /\ ops < MaxOps
    /\ ops' = ops + 1
    /\ issues # <<>>
    /\ auto_issues(issues) # <<>>
    /\ LET log == ApplyLoop(auto_issues(issues), text)
       IN  /\ text' = LoopResult(log, text)
           /\ last' = Last("apply_all", text, issues, 0, log, text')
    /\ issues' = scan_now(text', extended_cb, unmatched_open_cb)
    /\ UNCHANGED <<original_text, strict_cb, extended_cb, unmatched_open_cb>>

\* scan_folder lists a file when its scan, in the mode of that moment, finds
\* an issue in it
Listed(d) ==
    ~ \A extended \in BOOLEAN : \A unmatched_open \in BOOLEAN :
          ScanWithToggle(d, extended, unmatched_open) = <<>>

\* MainWindow.fix_and_save_all on the folder of the loaded file, the file
\* being in the files list; the fixed text goes to the output folder
FixAndSaveAll ==
    LET found == ScanWithToggle(original_text, extended_cb, unmatched_open_cb)
        log   == ApplyLoop(found, original_text)
    IN  /\ ops < MaxOps
        /\ ops' = ops + 1
        /\ Listed(original_text)
        /\ last' = Last("fix_and_save_all", original_text, found, 0, log,
                        LoopResult(log, original_text))
        /\ UNCHANGED <<text, original_text, strict_cb, extended_cb, unmatched_open_cb, issues>>

Next ==
    \/ ToggleStrict
    \/ ToggleExtended
    \/ ToggleUnmatchedOpen
    \/ EditText
    \/ ApplySelected
    \/ ApplyAll
    \/ FixAndSaveAll

Spec == Init /\ [][Next]_vars

\* ------------------------------------------------------------------------
\* The engine on its own: one scan of a document in some mode, followed by
\* one repair (SpecEngine) or by one batch of repairs (SpecBatch)
\* ------------------------------------------------------------------------
InitEngine ==
    \E d \in Docs : \E extended \in BOOLEAN : \E unmatched_open \in BOOLEAN :
        Loaded(d, ~extended, extended, unmatched_open)

NextEngine ==
    /\ last.op = "load_file"
    /\ ApplySelected

SpecEngine == InitEngine /\ [][NextEngine]_vars

NextBatch ==
    /\ last.op = "load_file"
    /\ \/ ApplyAll
       \/ FixAndSaveAll

SpecBatch == InitEngine /\ [][NextBatch]_vars

\* ========================================================================
\* Properties
\* ========================================================================
KindsOf(its) == {its[k].kind : k \in 1..Len(its)}

StrictKinds ==
    {"cpptext-brace", "brace-balance", "defaultprops-brace", "semicolon-missing", "paren-balance"}
ExtendedKinds == {"paren-control-close", "struct-enum-close", "paren-extra-close"}

\* In the engine specification nothing edits the text behind the scan, so
\* self.issues is always the scan of the current text in the current mode.

\* C2: detector selection by mode.  A scan without Extended holds only the
\* five strict kinds (and paren-extra-open, which the toggle alone decides);
\* the three extended kinds appear only with Extended checked; a
\* paren-extra-open issue appears only with the toggle on, and with the
\* toggle on it appears in either mode whenever the scanner is left with an
\* unmatched '('.
C2_DetectorSelection ==
    /\ ~extended_cb => KindsOf(issues) \subseteq StrictKinds \cup {"paren-extra-open"}
    /\ KindsOf(issues) \cap ExtendedKinds # {} => extended_cb
    /\ KindsOf(issues) \subseteq StrictKinds \cup ExtendedKinds \cup {"paren-extra-open"}
    /\ "paren-extra-open" \in KindsOf(issues) => unmatched_open_cb
    /\ (unmatched_open_cb /\ open_loop(text, 0, <<>>, 1) # <<>>)
           => "paren-extra-open" \in KindsOf(issues)

\* C2 witness: a scan in strict mode with the toggle on that reports the
\* unmatched '(' while the text also has a line the extended control
\* detector would flag
C2_Witness ==
    /\ ~extended_cb
    /\ unmatched_open_cb
    /\ "paren-extra-open" \in KindsOf(issues)
    /\ extended_control_paren_balance(text) # <<>>

\* the key of the de-dup, and the index of its first occurrence in raw
Tuple(it) == <<it.kind, it.line, it.message, it.span>>
FirstAt(raw, tuple) == Min({k \in 1..Len(raw) : Tuple(raw[k]) = tuple})

\* C3: de-duplication.  The scan result holds no two issues with the same
\* (kind, line, message, span); every tuple of the detector run is there; and
\* the issues are the first occurrences, in the order of the detector run.
C3_Dedup ==
    LET raw   == DetectorRun(text, extended_cb)
                     \o (IF unmatched_open_cb THEN extended_unmatched_open_paren(text) ELSE <<>>)
        first == [i \in 1..Len(issues) |-> FirstAt(raw, Tuple(issues[i]))]
    IN  /\ \A i, j \in 1..Len(issues) : i # j => Tuple(issues[i]) # Tuple(issues[j])
        /\ {Tuple(issues[k]) : k \in 1..Len(issues)} = {Tuple(raw[k]) : k \in 1..Len(raw)}
        /\ \A i \in 1..Len(issues) : issues[i] = raw[first[i]]
        /\ \A i \in 1..(Len(issues) - 1) : first[i] < first[i + 1]

\* C3 witness: a scan with two issues that agree on kind, line and message
\* and differ only in their span
C3_Witness ==
    \E i, j \in 1..Len(issues) :
        /\ i < j
        /\ issues[i].kind = issues[j].kind
        /\ issues[i].line = issues[j].line
        /\ issues[i].message = issues[j].message
        /\ issues[i].span # issues[j].span

\* the issue whose repair apply_selected applied
Applied == last.used[last.row]

SameKindLine(it) ==
    \E k \in 1..Len(issues) : issues[k].kind = it.kind /\ issues[k].line = it.line

ConvergentKinds == {"cpptext-brace", "semicolon-missing", "paren-control-close"}

C5_RepairIdempotent ==
    last.op = "apply_selected" => TryApply(Applied, text) = text

\* the operations that run the repair loop over the issues of one scan
BatchOps == {"apply_all", "fix_and_save_all"}

\* after is before without one character c, or is before
RemovesOnly(before, after, c) ==
    \/ after = before
    \/ \E p \in 0..(Len(before) - 1) :
          before[p + 1] = c /\ after = Upto(before, p) \o From(before, p + 1)

\* after is before with ins put in at an offset p, directly after a
\* 'defaultproperties'
InsertsAfterKeyword(before, after, ins) ==
    \E p \in 0..Len(before) :
        /\ after = Upto(before, p) \o ins \o From(before, p)
        /\ HasAt(before, p - Len(kw_defaultproperties), kw_defaultproperties)

\* after is before with ins put in at an offset p, directly before a
\* top-level keyword or at the end of the text
InsertsBeforeTopLevel(before, after, ins) ==
    \E p \in 0..Len(before) :
        /\ after = Upto(before, p) \o ins \o From(before, p)
        /\ (p = Len(before) \/ TopLevelMatchAt(before, p))

LocatesEdit(s) ==
    CASE s.it.kind = "paren-extra-close"  -> RemovesOnly(s.before, s.after, ")")
      [] s.it.kind = "paren-extra-open"   -> RemovesOnly(s.before, s.after, "(")
      [] s.it.kind = "defaultprops-brace" ->
             InsertsAfterKeyword(s.before, s.after, <<" ", "{", NL, "}", NL>>)
      [] s.it.kind = "struct-enum-close"  ->
             InsertsBeforeTopLevel(s.before, s.after, <<"}", NL>>)
      [] OTHER -> TRUE

\* C6: no stale offsets.  In the repair loop over the issues of one scan, a
\* paren-extra-close repair removes only a ')', a paren-extra-open repair
\* only a '(', the defaultprops-brace insertion lands directly after a
\* 'defaultproperties' and the struct-enum-close insertion directly before a
\* top-level keyword or at the end of the text.
C6_NoStaleOffsets ==
    last.op \in BatchOps => \A k \in 1..Len(last.log) : LocatesEdit(last.log[k])

\* the issues of the scan that carry a repair, in scan order
WithRepair(its) == SelectSeq(its, LAMBDA it : it.apply_fn.fn # "None")

\* C7: batch fix-all semantics.  apply_all and _apply_autofixes call the
\* repair of every issue of the scan that has one, once each and in scan
\* order, skipping the issues without a repair; each repair is given the text
\* the previous one left; a repair that raises leaves the text as it was and
\* the repairs after it are still applied.
C7_BatchFixAll ==
    last.op \in BatchOps =>
        LET log == last.log
            fix == WithRepair(last.used)
        IN  /\ Len(log) = Len(fix)
            /\ \A k \in 1..Len(log) :
                  /\ log[k].it = fix[k]
                  /\ log[k].before = IF k = 1 THEN last.pre ELSE log[k - 1].after
                  /\ log[k].after = IF Raises(log[k].it, log[k].before)
                                    THEN log[k].before
                                    ELSE apply_fn(log[k].it, log[k].before)
            /\ last.out = IF log = <<>> THEN last.pre ELSE log[Len(log)].after
            /\ last.op = "apply_all" => text = last.out

\* C7 witness: in apply_all a repair raised and the repair after it changed
\* the text
C7_Witness ==
    /\ last.op = "apply_all"
    /\ \E k \in 1..(Len(last.log) - 1) :
          /\ Raises(last.log[k].it, last.log[k].before)
          /\ last.log[k + 1].after # last.log[k + 1].before

\* C8: repairs of one scan compose safely.  For a document with at least as
\* many '{' as '}', the batch fix-all of one extended-mode scan never leaves
\* more '}' than '{'.
C8_BatchKeepsBraces ==
    (/\ last.op \in BatchOps
     /\ extended_cb
     /\ Count(last.pre, "{") >= Count(last.pre, "}"))
        => Count(last.out, "{") >= Count(last.out, "}")

\* the step changed nothing, or it changed one line only, and that line
\* begins with the flagged line of the scanned document
OnFlaggedLine(s, scanned) ==
    LET b  == splitlines(s.before)
        a  == splitlines(s.after)
        fl == rstrip(splitlines(scanned)[s.it.line])
    IN  \/ s.after = s.before
        \/ /\ Len(a) = Len(b)
           /\ \E i \in 1..Len(b) :
                 /\ StartsWith(b[i], fl)
                 /\ \A j \in 1..Len(b) : j # i => a[j] = b[j]

\* C9: in a batch fix-all the semicolon-missing repair changes the line the
\* scan flagged and no other line, also after earlier repairs of the batch
\* have inserted lines above it.
C9_SemicolonOnFlaggedLine ==
    last.op \in BatchOps =>
        \A k \in 1..Len(last.log) :
            last.log[k].it.kind = "semicolon-missing" => OnFlaggedLine(last.log[k], last.pre)

\* number of line breaks, and number of lines, of a text
LineBreaks(s) == Count(s, NL)
LineCount(s) == Len(splitlines(s))

\* out has n more lines than pre, counting line breaks or counting lines
Grows(pre, out, n) ==
    \/ LineBreaks(out) - LineBreaks(pre) = n
    \/ LineCount(out) - LineCount(pre) = n

\* all lines of pre but at most one are lines of out, in place at its head
\* and at its tail
OtherLinesKept(pre, out) ==
    LET P == splitlines(pre)
        O == splitlines(out)
    IN  \E i \in 0..Len(P) : \E j \in 0..(Len(P) - i) :
            /\ Len(P) - i - j <= 1
            /\ i + j <= Len(O)
            /\ SubSeq(O, 1, i) = SubSeq(P, 1, i)
            /\ SubSeq(O, Len(O) - j + 1, Len(O)) = SubSeq(P, Len(P) - j + 1, Len(P))

OneLineKinds == {"cpptext-brace", "brace-balance", "struct-enum-close"}

\* C10 as stated: one repair of the scanned document adds one line for
\* cpptext-brace, brace-balance and struct-enum-close and none for the other
\* kinds, and keeps the content of the lines other than its target
C10_LineCountAsStated ==
    last.op = "apply_selected" =>
        /\ Grows(last.pre, last.out, IF Applied.kind \in OneLineKinds THEN 1 ELSE 0)
        /\ OtherLinesKept(last.pre, last.out)

\* the flagged line is the last line of the text and has no line break
Unterminated(it, pre) ==
    LET P == splitlines(pre)
    IN  it.line = Len(P) /\ ~EndsWith(P[it.line], <<NL>>)

\* C10: line-count effect of one repair of the scanned document.  It adds one
\* line break for cpptext-brace, brace-balance and struct-enum-close, two for
\* defaultprops-brace, none for paren-extra-close and paren-extra-open; for
\* semicolon-missing and paren-control-close the number of lines stays and
\* the only line break added is the one that ends a flagged last line that
\* had none.  Lines other than the target line keep their content.
C10_LineCount ==
    last.op = "apply_selected" =>
        LET k == Applied.kind
            d == LineBreaks(last.out) - LineBreaks(last.pre)
        IN  /\ k \in OneLineKinds => d = 1
            /\ k = "defaultprops-brace" => d = 2
            /\ k \in {"paren-extra-close", "paren-extra-open"} => d = 0
            /\ k \in {"semicolon-missing", "paren-control-close"} =>
                  /\ LineCount(last.out) = LineCount(last.pre)
                  /\ d = IF Unterminated(Applied, last.pre) THEN 1 ELSE 0
            /\ OtherLinesKept(last.pre, last.out)

\* C10 witness: a defaultprops-brace repair was applied to a document of
\* several lines
C10_Witness ==
    /\ last.op = "apply_selected"
    /\ Applied.kind = "defaultprops-brace"
    /\ LineCount(last.pre) > 1

\* ------------------------------------------------------------------------
\* C11 (as stated): every repair of an apply operation is applied to the
\* text whose scan produced its issue, and when apply_selected or apply_all
\* is over the stored issue list is the scan of the current text.
C11_RescanDiscipline ==
    /\ last.op \in BatchOps =>
          \A k \in 1..Len(last.log) : last.log[k].before = last.pre
    /\ last.op \in {"apply_selected", "apply_all"} =>
          issues = scan_now(text, extended_cb, unmatched_open_cb)

\* ------------------------------------------------------------------------
\* The engine on lexical input: one scan in extended mode with the
\* unmatched '(' toggle on, of a document made of parentheses, quotes,
\* backslashes, comment delimiters and line breaks, followed by one repair
\* ------------------------------------------------------------------------
MaxToks == 4

LexTokens ==
    {<<"(">>, <<")">>, <<"'">>, <<"\"">>, <<"\\">>, <<NL>>,
     <<"/", "/">>, <<"/", "*">>, <<"*", "/">>}

RECURSIVE LexDocsOf(_)
LexDocsOf(k) ==
    IF k = 0 THEN {<<>>}
    ELSE LET D == LexDocsOf(k - 1) IN D \cup {d \o t : d \in D, t \in LexTokens}

LexDocs == LexDocsOf(MaxToks)

InitLexer == \E d \in LexDocs : Loaded(d, FALSE, TRUE, TRUE)

SpecLexer == InitLexer /\ [][NextEngine]_vars

\* ------------------------------------------------------------------------
\* The lexical classes of section 4.1, as a reference: the class of every
\* character of doc from the k-th on, the k-th being met in class m.
\* "code" is live text; "open" the first character of a comment or a string;
\* "line" a // comment up to its line break; "block" a /* */ comment; "'"
\* and "\"" a string with that quote (a backslash takes the next character
\* with it).  An unterminated comment or string runs to the end of doc.
RECURSIVE LexClasses(_, _, _)
LexClasses(doc, k, m) ==
    IF k > Len(doc) THEN <<>>
    ELSE CASE m = "code" ->
                IF HasAt(doc, k - 1, <<"/", "/">>)
                THEN <<"open", "line">> \o LexClasses(doc, k + 2, "line")
                ELSE IF HasAt(doc, k - 1, <<"/", "*">>)
                THEN <<"open", "block">> \o LexClasses(doc, k + 2, "block")
                ELSE IF doc[k] \in {"'", "\""}
                THEN <<"open">> \o LexClasses(doc, k + 1, doc[k])
                ELSE <<"code">> \o LexClasses(doc, k + 1, "code")
           [] m = "line" ->
                IF doc[k] = NL
                THEN <<"code">> \o LexClasses(doc, k + 1, "code")
                ELSE <<"line">> \o LexClasses(doc, k + 1, "line")
           [] m = "block" ->
                IF HasAt(doc, k - 1, <<"*", "/">>)
                THEN <<"block", "block">> \o LexClasses(doc, k + 2, "code")
                ELSE <<"block">> \o LexClasses(doc, k + 1, "block")
           [] OTHER ->
                IF doc[k] = "\\"
                THEN IF k = Len(doc) THEN <<m>>
                     ELSE <<m, m>> \o LexClasses(doc, k + 2, m)
                ELSE IF doc[k] = m
                THEN <<m>> \o LexClasses(doc, k + 1, "code")
                ELSE <<m>> \o LexClasses(doc, k + 1, m)

Classes(doc) == LexClasses(doc, 1, "code")

\* doc with every character of a comment or a string replaced by a blank
Blanked(doc) ==
    LET cls == Classes(doc)
    IN  [k \in 1..Len(doc) |-> IF cls[k] = "code" THEN doc[k] ELSE " "]

\* reference scan for ')': offset of the first ')' met at depth zero, or -1
RECURSIVE PlainClose(_, _, _)
PlainClose(b, k, depth) ==
    IF k > Len(b) THEN -1
    ELSE IF b[k] = "(" THEN PlainClose(b, k + 1, depth + 1)
    ELSE IF b[k] = ")"
         THEN IF depth = 0 THEN k - 1 ELSE PlainClose(b, k + 1, depth - 1)
    ELSE PlainClose(b, k + 1, depth)

\* reference scan for '(': offset of the last '(' left open, or -1; open is
\* the sequence of the offsets of the '(' not closed so far
RECURSIVE PlainOpen(_, _, _)
PlainOpen(b, k, open) ==
    IF k > Len(b) THEN IF open = <<>> THEN -1 ELSE open[Len(open)]
    ELSE IF b[k] = "(" THEN PlainOpen(b, k + 1, Append(open, k - 1))
    ELSE IF b[k] = ")" /\ open # <<>> THEN PlainOpen(b, k + 1, SubSeq(open, 1, Len(open) - 1))
    ELSE PlainOpen(b, k + 1, open)

\* the offsets the issues of one kind report, -1 standing for no issue
Reported(its, kind) ==
    LET S == {its[k].span[1] : k \in {j \in 1..Len(its) : its[j].kind = kind}}
    IN  IF S = {} THEN {-1} ELSE S

\* C12: the paren-extra-close and paren-extra-open issues of a scan are those
\* of a plain scan of the document with all comments and strings blanked
\* out: the same presence and the same reported paren, which is therefore
\* never a character of a comment or a string.
C12_CommentStringImmunity ==
    LET b == Blanked(text)
    IN  /\ extended_cb => Reported(issues, "paren-extra-close") = {PlainClose(b, 1, 0)}
        /\ unmatched_open_cb => Reported(issues, "paren-extra-open") = {PlainOpen(b, 1, <<>>)}

\* C12 witness: a parenthesis inside a comment or a string precedes the one
\* the scan reports
C12_Witness ==
    /\ extended_cb
    /\ \E k \in 1..Len(issues) :
          /\ issues[k].kind \in {"paren-extra-close", "paren-extra-open"}
          /\ \E p \in 1..issues[k].span[1] :
                text[p] \in {"(", ")"} /\ Classes(text)[p] # "code"

\* ------------------------------------------------------------------------
\* the offsets (from 1) of the live characters c of doc among a..b
LiveIn(doc, c, a, b) ==
    LET cls == Classes(doc)
    IN  {k \in a..b : k >= 1 /\ k <= Len(doc) /\ doc[k] = c /\ cls[k] = "code"}

\* live '(' minus live ')' among a..b
Excess(doc, a, b) ==
    Cardinality(LiveIn(doc, "(", a, b)) - Cardinality(LiveIn(doc, ")", a, b))

\* the live ')' met while as many ')' as '(' came before: the first of them
\* is the first ')' met at depth zero
ExtraCloses(doc) ==
    {p \in LiveIn(doc, ")", 1, Len(doc)) : Excess(doc, 1, p - 1) = 0}

\* the live '(' that no later ')' closes: after it the ')' never outnumber
\* the '('
UnmatchedOpens(doc) ==
    {p \in LiveIn(doc, "(", 1, Len(doc)) : \A q \in (p + 1)..Len(doc) : Excess(doc, p + 1, q) >= 0}

\* the issues of one kind
OfKind(its, kind) == SelectSeq(its, LAMBDA it : it.kind = kind)

\* doc without the character at offset p (from 0)
Without(doc, p) == [k \in 1..(Len(doc) - 1) |-> IF k <= p THEN doc[k] ELSE doc[k + 1]]

\* the scenario of the specification, in lower case
DoThing == <<"d", "o", "t", "h", "i", "n", "g", "(", "x", ")", ")", ";", NL>>

\* C13: a scan reports one paren-extra-close issue, at the first live ')'
\* met at depth zero, or none when there is no such ')'; it reports one
\* paren-extra-open issue, at the rightmost live '(' that nothing closes, or
\* none when every '(' is closed; the repair, applied to the scanned text,
\* deletes that character and nothing else.
C13_WhichParen ==
    LET closes == OfKind(issues, "paren-extra-close")
        opens  == OfKind(issues, "paren-extra-open")
        X      == ExtraCloses(text)
        U      == UnmatchedOpens(text)
    IN  /\ extended_cb =>
              IF X = {} THEN closes = <<>>
              ELSE Len(closes) = 1 /\ closes[1].span = <<Min(X) - 1, Min(X)>>
        /\ unmatched_open_cb =>
              IF U = {} THEN opens = <<>>
              ELSE Len(opens) = 1 /\ opens[1].span = <<Max(U) - 1, Max(U)>>
        /\ (last.op = "apply_selected" /\ Applied.kind = "paren-extra-close") =>
              last.out = Without(last.pre, Min(ExtraCloses(last.pre)) - 1)
        /\ (last.op = "apply_selected" /\ Applied.kind = "paren-extra-open") =>
              last.out = Without(last.pre, Max(UnmatchedOpens(last.pre)) - 1)
        /\ LET found == extended_unmatched_close_paren(DoThing)
           IN  /\ Len(found) = 1
               /\ found[1].span = <<10, 11>>
               /\ apply_fn(found[1], DoThing)
                      = <<"d", "o", "t", "h", "i", "n", "g", "(", "x", ")", ";", NL>>

\* C13 witness: the rightmost of several unclosed '(' was deleted
C13_Witness ==
    /\ last.op = "apply_selected"
    /\ Applied.kind = "paren-extra-open"
    /\ Cardinality(UnmatchedOpens(last.pre)) > 1

\* ------------------------------------------------------------------------
\* the defaultprops-brace repair was applied to the scanned text, in which
\* the keyword is followed directly by a line break and further text
KeywordThenLines ==
    /\ last.op = "apply_selected"
    /\ Applied.kind = "defaultprops-brace"
    /\ Applied.apply_fn.arg + 1 < Len(last.pre)
    /\ last.pre[Applied.apply_fn.arg + 1] = NL

\* the lines of the repaired text: those before the keyword line, the keyword
\* line with " {" added, a line "}", the lines of between, and the lines
\* that followed the keyword line
RepairedLines(between) ==
    LET lines == splitlines(last.pre)
        i     == LineBreaks(Upto(last.pre, Applied.apply_fn.arg)) + 1
    IN  /\ Applied.line = i
        /\ EndsWith(rstrip_nl(lines[i]), kw_defaultproperties)
        /\ splitlines(last.out)
              = SubSeq(lines, 1, i - 1)
                    \o <<rstrip_nl(lines[i]) \o <<" ", "{", NL>>, <<"}", NL>>>>
                    \o between
                    \o SubSeq(lines, i + 1, Len(lines))

\* the scenario of the specification, in lower case
Health == kw_defaultproperties \o <<NL, "h", "e", "a", "l", "t", "h", "=", "1", "0", "0", NL>>

\* C14 (as stated): the repair turns the keyword line into
\* 'defaultproperties {', adds a line '}' and leaves the following lines as
\* they were, with no blank line in between.
C14_DefaultpropsAsStated ==
    KeywordThenLines => RepairedLines(<<>>)

\* C14 (amended): the repair inserts ' {\n}\n' directly after the keyword, in
\* front of the line break that followed it: the keyword line becomes
\* 'defaultproperties {', then come a line '}', an empty line, and the
\* following lines as they were; 'defaultproperties\nhealth=100\n' becomes
\* 'defaultproperties {\n}\n\nhealth=100\n'.
C14_DefaultpropsResult ==
    /\ KeywordThenLines => RepairedLines(<<<<NL>>>>)
    /\ LET found == check_defaultproperties(Health)
       IN  /\ Len(found) = 1
           /\ found[1].line = 1
           /\ apply_fn(found[1], Health)
                  = kw_defaultproperties
                        \o <<" ", "{", NL, "}", NL, NL, "h", "e", "a", "l", "t", "h", "=", "1", "0", "0", NL>>

\* C14 witness: the repair was applied to a keyword followed by a line break
\* and a further line
C14_Witness ==
    /\ KeywordThenLines
    /\ LineCount(last.pre) > Applied.line

\* ------------------------------------------------------------------------
\* the number of backslashes that directly precede offset q (from 1) of doc,
\* not counting those at or before offset p
RECURSIVE BackslashesBefore(_, _, _)
BackslashesBefore(doc, p, q) ==
    IF q - 1 > p /\ doc[q - 1] = "\\" THEN 1 + BackslashesBefore(doc, p, q - 1) ELSE 0

\* the comment or string that opens at offset p (from 1) of doc has no end:
\* no line break after '//', no '*/' after '/*', no quote of its kind that
\* an even number of backslashes precedes
NeverCloses(doc, p) ==
    IF HasAt(doc, p - 1, <<"/", "/">>)
    THEN \A q \in (p + 2)..Len(doc) : doc[q] # NL
    ELSE IF HasAt(doc, p - 1, <<"/", "*">>)
    THEN \A q \in (p + 2)..(Len(doc) - 1) : ~HasAt(doc, q - 1, <<"*", "/">>)
    ELSE \A q \in (p + 1)..Len(doc) :
             doc[q] = doc[p] => BackslashesBefore(doc, p, q) % 2 = 1

\* the openings of the comments and strings of doc that never close
Unclosed(doc) ==
    LET cls == Classes(doc)
    IN  {p \in 1..Len(doc) : cls[p] = "open" /\ NeverCloses(doc, p)}

\* C15: the cursor of the two paren scanners moves forward over every
\* comment and string, whatever it contains; a comment or string that never
\* closes runs to the end of the document: the scan reports what it reports
\* for the document cut off where that comment or string opens, so nothing
\* after the opening is counted or reported.
C15_ScansTerminate ==
    /\ \A i \in 0..(Len(text) - 1) :
          /\ HasAt(text, i, <<"/", "/">>) => skip_line_comment(text, i + 2) > i
          /\ HasAt(text, i, <<"/", "*">>) => skip_block_comment(text, i, 1)[1] > i
          /\ text[i + 1] \in {"'", "\""} => skip_string(text, i, text[i + 1], 1)[1] > i
    /\ \A p \in Unclosed(text) :
          /\ extended_cb =>
                OfKind(issues, "paren-extra-close") = extended_unmatched_close_paren(Upto(text, p - 1))
          /\ unmatched_open_cb =>
                OfKind(issues, "paren-extra-open") = extended_unmatched_open_paren(Upto(text, p - 1))

\* C15 witness: a block comment or a string never closes, parentheses
\* follow its opening, and the scan reports one before it
C15_Witness ==
    \E p \in Unclosed(text) :
        /\ ~HasAt(text, p - 1, <<"/", "/">>)
        /\ \E q \in (p + 1)..Len(text) : text[q] \in {"(", ")"}
        /\ OfKind(issues, "paren-extra-open") # <<>>

\* ------------------------------------------------------------------------
\* C16: whatever check boxes the user has clicked, Strict and Extended are
\* never both checked once the change handler has run.
C16_ModeExclusive == ~(strict_cb /\ extended_cb)

\* C16 witness: checking Extended has unchecked Strict, and the unmatched
\* '(' box is checked next to Extended
C16_Witness ==
    /\ last.op = "mode_changed"
    /\ extended_cb
    /\ ~strict_cb
    /\ unmatched_open_cb

\* ------------------------------------------------------------------------
\* C17: in both modes the scan holds one paren-balance issue when the
\* document has different numbers of '(' and ')', those of comments and
\* strings included, and none when the numbers are equal; the issue names
\* the side in excess and carries no repair, so a batch of repairs applies
\* nothing for it.
C17_ParenBalanceInformational ==
    LET found  == OfKind(issues, "paren-balance")
        open_p == Count(text, "(")
        close_p == Count(text, ")")
    IN  /\ open_p = close_p => found = <<>>
        /\ open_p # close_p =>
              /\ Len(found) = 1
              /\ ~HasFix(found[1])
              /\ found[1].message.tmpl
                    = IF open_p > close_p THEN "Unbalanced parentheses: More '(' than ')'."
                                          ELSE "Unbalanced parentheses: More ')' than '('."
        /\ last.op \in BatchOps =>
              /\ \A k \in 1..Len(last.log) : last.log[k].it.kind # "paren-balance"
              /\ (\A k \in 1..Len(last.used) : last.used[k].kind = "paren-balance")
                    => last.out = last.pre

\* C17 witness: a batch of repairs ran on a scan that holds a paren-balance
\* issue for a ')' inside a comment
C17_Witness ==
    /\ last.op \in BatchOps
    /\ OfKind(last.used, "paren-balance") # <<>>
    /\ last.out # last.pre
    /\ \E p \in 1..Len(last.pre) : last.pre[p] = ")" /\ Classes(last.pre)[p] # "code"

\* ------------------------------------------------------------------------
\* the offset (from 0) of the anchor of an issue in the scanned text: the
\* start of the flagged line, the keyword, or the reported paren
Anchor(it, doc) ==
    CASE it.kind = "defaultprops-brace" -> it.apply_fn.arg - Len(kw_defaultproperties)
      [] it.kind = "struct-enum-close"  -> Max(RStar(doc, {it.span[1]}, Space))
      [] OTHER                          -> it.span[1]

AnchoredKinds ==
    {"cpptext-brace", "defaultprops-brace", "semicolon-missing", "paren-control-close",
     "struct-enum-close", "paren-extra-close", "paren-extra-open"}

\* C18 (as stated): the line of an issue is 1 plus the number of line breaks
\* of the scanned document that precede its anchor.
C18_LineOfAnchor ==
    \A k \in 1..Len(issues) :
        issues[k].kind \in AnchoredKinds =>
            issues[k].line = 1 + LineBreaks(Upto(text, Anchor(issues[k], text)))

\* ------------------------------------------------------------------------
\* C19: the scan holds at most one brace-balance issue: none when the
\* document has as many '{' as '}', one without a repair when it has more
\* '}', one with a repair when it has more '{', by any amount; the braces of
\* comments and strings are counted.
C19_BraceBalanceDetection ==
    LET found == OfKind(issues, "brace-balance")
        open_b  == Count(text, "{")
        close_b == Count(text, "}")
    IN  /\ Len(found) <= 1
        /\ open_b = close_b => found = <<>>
        /\ open_b < close_b => Len(found) = 1 /\ ~HasFix(found[1])
        /\ open_b > close_b => Len(found) = 1 /\ HasFix(found[1])

\* C19 witness: two '{' more than '}', and a brace in a comment that counts
C19_Witness ==
    /\ Count(text, "{") > Count(text, "}") + 1
    /\ OfKind(issues, "brace-balance") # <<>>
    /\ \E p \in 1..Len(text) : text[p] \in {"{", "}"} /\ Classes(text)[p] # "code"

\* ------------------------------------------------------------------------
\* the first keyword of the top-level constructs that stands in doc as a word
\* of its own: its offset (from 0), or the length of doc when there is none
FirstKeyword(doc) ==
    LET S == {p \in 0..Len(doc) : \E kw \in TopLevelKeywords :
                 HasAt(doc, p, kw) /\ WordBoundary(doc, p) /\ WordBoundary(doc, p + Len(kw))}
    IN  IF S = {} THEN Len(doc) ELSE Min(S)

\* the text from offset p on begins, after white space, with a keyword of the
\* top-level constructs that ends as a word
KeywordAhead(doc, p) ==
    LET rest == lstrip(From(doc, p))
    IN  \E kw \in TopLevelKeywords :
            /\ StartsWith(rest, kw)
            /\ (Len(rest) = Len(kw) \/ rest[Len(kw) + 1] \notin Word)

\* the start of the first line of doc from which only white space leads to
\* such a keyword, or the length of doc when there is none
FirstKeywordLine(doc) ==
    LET S == {p \in 0..(Len(doc) - 1) : (p = 0 \/ doc[p] = NL) /\ KeywordAhead(doc, p)}
    IN  IF S = {} THEN Len(doc) ELSE Min(S)

\* the entries of the log of a batch that are brace-balance repairs
BraceRepairs == {k \in 1..Len(last.log) : last.log[k].it.kind = "brace-balance"}

\* C20 (as stated): the brace-balance repair inserts a single '}' directly
\* before the first top-level keyword of the text it is given, or at its end,
\* and changes nothing else.
C20_BraceBeforeKeyword ==
    last.op \in BatchOps =>
        \A k \in BraceRepairs :
            LET before == last.log[k].before
                p      == FirstKeyword(before)
            IN  last.log[k].after = Upto(before, p) \o <<"}">> \o From(before, p)

\* C20 (amended): the brace-balance repair inserts '}' and a line break at
\* the start of the first line of the text it is given from which only white
\* space (blank lines included) leads to a top-level keyword, or at the end
\* of the text when no line starts so; it changes nothing else, and the
\* excess of '{' over '}' goes down by one.
C20_BraceRepairPlacement ==
    last.op \in BatchOps =>
        \A k \in BraceRepairs :
            LET before == last.log[k].before
                after  == last.log[k].after
                p      == FirstKeywordLine(before)
            IN  /\ after = Upto(before, p) \o <<"}", NL>> \o From(before, p)
                /\ Count(after, "{") - Count(after, "}")
                      = Count(before, "{") - Count(before, "}") - 1

\* C20 witness: the repair was given a text that an earlier repair of the
\* batch had changed, and put its '}' in front of a keyword line of it
C20_Witness ==
    /\ last.op \in BatchOps
    /\ \E k \in BraceRepairs :
          LET before == last.log[k].before
          IN  /\ before # last.pre
              /\ FirstKeywordLine(before) < Len(before)

\* ------------------------------------------------------------------------
\* the lines of doc without their line breaks
Contents(doc) ==
    LET lines == splitlines(doc) IN [i \in 1..Len(lines) |-> rstrip_nl(lines[i])]

\* a line that is blank or a pure '//' comment
BlankOrPureComment(line) ==
    strip(line) = <<>> \/ StartsWith(strip(line), <<"/", "/">>)

\* the lines (from 1) of doc that hold the word cpptext and no '{', and whose
\* next line that is neither blank nor a pure comment does not start with
\* '{', or does not exist
CpptextLines(doc) ==
    LET lines == splitlines(doc)
    IN  {i \in 1..Len(lines) :
            /\ HasCpptext(lines[i])
            /\ \A k \in 1..Len(lines[i]) : lines[i][k] # "{"
            /\ LET J == {j \in (i + 1)..Len(lines) : ~BlankOrPureComment(lines[j])}
               IN  J = {} \/ ~StartsWith(lstrip(lines[Min(J)]), <<"{">>)}

\* C21 (as stated): the scan holds one cpptext-brace issue for each of these
\* lines and for no other; its repair, applied to the scanned text, puts a
\* new line that holds '{' alone directly after the keyword line and leaves
\* every other line as it was, the keyword line included when it is the last
\* line and has no line break.
C21_CpptextBrace ==
    LET found == OfKind(issues, "cpptext-brace")
    IN  /\ Len(found) = Cardinality(CpptextLines(text))
        /\ {found[k].line : k \in 1..Len(found)} = CpptextLines(text)
        /\ (last.op = "apply_selected" /\ Applied.kind = "cpptext-brace") =>
              LET P == Contents(last.pre)
                  i == Applied.line
              IN  Contents(last.out) = SubSeq(P, 1, i) \o <<<<"{">>>> \o SubSeq(P, i + 1, Len(P))

\* ------------------------------------------------------------------------
\* Documents of assignments and control lines with strings, comments and
\* blanks, scanned in extended mode.
MaxPieces == 4

LinePieces ==
    {<<"x", "=">>, kw_if \o <<"(">>, <<"x">>, <<"\"">>, <<"/", "/">>,
     <<" ">>, <<")">>, <<"{">>, <<NL>>}

RECURSIVE LineDocsOf(_)
LineDocsOf(k) ==
    IF k = 0 THEN {<<>>}
    ELSE LET D == LineDocsOf(k - 1) IN D \cup {d \o t : d \in D, t \in LinePieces}

LineDocs == LineDocsOf(MaxPieces)

InitLines == \E d \in LineDocs : Loaded(d, FALSE, TRUE, FALSE)

SpecLines == InitLines /\ [][NextEngine]_vars

\* ------------------------------------------------------------------------
\* where the code of a line ends: the offset of its trailing // comment (the
\* first // that opens a comment, not one inside a string), or the length of
\* the line when it has none
CodeEnd(line) ==
    LET cls == Classes(line)
        S   == {p \in 0..(Len(line) - 2) :
                   HasAt(line, p, <<"/", "/">>) /\ cls[p + 1] = "open"}
    IN  IF S = {} THEN Len(line) ELSE Min(S)

\* new is old with the one character c put after the last code character
\* that is not white space, in front of the trailing comment; the white space
\* between c and the comment is free
ClosedWith(old, new, c) ==
    LET p       == CodeEnd(old)
        code    == rstrip(Upto(old, p)) \o <<c>>
        comment == From(old, p)
    IN  /\ Len(new) >= Len(code) + Len(comment)
        /\ StartsWith(new, code)
        /\ EndsWith(new, comment)
        /\ \A k \in (Len(code) + 1)..(Len(new) - Len(comment)) : new[k] \in Space

\* the lines (from 1) of doc that start, after white space, with if, while
\* or for and then '(', and hold exactly one '(' more than ')'
ControlLines(doc) ==
    LET lines == splitlines(doc)
        Opens(s, kw) == StartsWith(s, kw) /\ StartsWith(lstrip(From(s, Len(kw))), <<"(">>)
    IN  {i \in 1..Len(lines) :
            /\ \E kw \in {kw_if, kw_while, kw_for} : Opens(lstrip(lines[i]), kw)
            /\ Count(lines[i], "(") = Count(lines[i], ")") + 1}

\* C22 (as stated): in extended mode the scan holds one paren-control-close
\* issue for each control line with exactly one '(' too many and for no other
\* line; its repair, applied to the scanned text, adds one ')' to that line
\* after the last code character and in front of a trailing // comment,
\* leaves the other lines alone and makes the '(' and ')' of the line equal
\* in number.
C22_ControlParenClose ==
    LET found == OfKind(issues, "paren-control-close")
    IN  /\ extended_cb =>
              /\ Len(found) = Cardinality(ControlLines(text))
              /\ {found[k].line : k \in 1..Len(found)} = ControlLines(text)
        /\ (last.op = "apply_selected" /\ Applied.kind = "paren-control-close") =>
              LET P == Contents(last.pre)
                  O == Contents(last.out)
                  i == Applied.line
              IN  /\ Len(O) = Len(P)
                  /\ \A j \in 1..Len(P) : j # i => O[j] = P[j]
                  /\ ClosedWith(P[i], O[i], ")")
                  /\ Count(O[i], "(") = Count(O[i], ")")

\* C24 (as stated): no semicolon-missing issue stands on a blank line, on a
\* line that is a pure comment or on a line ending in '{' or '}'; the repair
\* of a flagged line, applied to the scanned text, puts exactly one ';' after
\* the last code character that is not white space and in front of a
\* trailing // comment, never after it, and leaves the other lines alone; on
\* a line that already ends in ';' the repair returns the text as it is.
C24_SemicolonPlacement ==
    LET found == OfKind(issues, "semicolon-missing")
        lines == splitlines(text)
    IN  /\ \A k \in 1..Len(found) :
              LET s == strip(lines[found[k].line])
              IN  /\ s # <<>>
                  /\ ~StartsWith(s, <<"/", "/">>)
                  /\ ~StartsWith(s, <<"/", "*">>)
                  /\ ~EndsWith(s, <<"{">>)
                  /\ ~EndsWith(s, <<"}">>)
        /\ \A i \in 1..Len(lines) :
              EndsWith(rstrip(lines[i]), <<";">>) => semicolon_apply(text, i) = text
        /\ (last.op = "apply_selected" /\ Applied.kind = "semicolon-missing") =>
              LET P == Contents(last.pre)
                  O == Contents(last.out)
                  i == Applied.line
              IN  /\ Len(O) = Len(P)
                  /\ \A j \in 1..Len(P) : j # i => O[j] = P[j]
                  /\ ClosedWith(P[i], O[i], ";")
                  /\ Count(O[i], ";") = Count(P[i], ";") + 1

\* ------------------------------------------------------------------------
\* the offsets just behind the last '{' of every line of doc that starts,
\* after white space, with the word struct or enum and holds a '{'
HeaderEnds(doc) ==
    LET lines == splitlines(doc)
        Heads(s, kw) == StartsWith(s, kw) /\ (Len(s) = Len(kw) \/ s[Len(kw) + 1] \notin Word)
    IN  {offs_of(lines, i) + Max({k \in 1..Len(lines[i]) : lines[i][k] = "{"}) :
            i \in {j \in 1..Len(lines) :
                      /\ Heads(lstrip(lines[j]), kw_struct) \/ Heads(lstrip(lines[j]), kw_enum)
                      /\ Count(lines[j], "{") > 0}}

\* counted from offset e on with a count of 1, '{' up and '}' down, the count
\* is above zero at every point up to the end of doc
NeverZero(doc, e) ==
    \A q \in e..Len(doc) : 1 + CountIn(doc, "{", e, q) - CountIn(doc, "}", e, q) > 0

\* the unmatched point of such a walk: the offset behind the last brace of
\* doc, or e when no brace follows e
UnmatchedPoint(doc, e) ==
    LET B == {k \in (e + 1)..Len(doc) : doc[k] \in {"{", "}"}}
    IN  IF B = {} THEN e ELSE Max(B)

\* the struct-enum-close issues stand for the header lines whose walk never
\* returns to zero, one for each
StructDetection ==
    LET found == OfKind(issues, "struct-enum-close")
        open  == {e \in HeaderEnds(text) : NeverZero(text, e)}
    IN  extended_cb =>
            /\ Len(found) = Cardinality(open)
            /\ {found[k].span[2] : k \in 1..Len(found)} = open

\* C23 (as stated): in extended mode an issue is emitted for exactly the
\* struct/enum header lines whose brace count never returns to zero; its
\* repair, applied to the scanned text, inserts a single '}' directly before
\* the next top-level keyword behind the unmatched point, or at the end of
\* the document, and changes nothing else.
C23_BraceBeforeNextKeyword ==
    /\ StructDetection
    /\ (last.op = "apply_selected" /\ Applied.kind = "struct-enum-close") =>
          LET pos == UnmatchedPoint(last.pre, Applied.span[2])
              p   == pos + FirstKeyword(From(last.pre, pos))
          IN  last.out = Upto(last.pre, p) \o <<"}">> \o From(last.pre, p)

\* where the closing brace goes: the unmatched point itself when only white
\* space leads from it to a top-level keyword, else the start of the first
\* later line from which only white space leads to one, else the end of doc
StructPoint(doc, pos) ==
    LET S == {p \in pos..(Len(doc) - 1) : (p = pos \/ doc[p] = NL) /\ KeywordAhead(doc, p)}
    IN  IF S = {} THEN Len(doc) ELSE Min(S)

\* C23 (amended): in extended mode an issue is emitted for exactly the
\* struct/enum header lines whose brace count, walked from behind the last
\* '{' of the line, never returns to zero; its repair, applied to the scanned
\* text, inserts '}' and a line break at the unmatched point when only white
\* space leads from there to a top-level keyword, else at the start of the
\* first later line that so leads to one, else at the end of the document,
\* and changes nothing else.
C23_StructEnumClose ==
    /\ StructDetection
    /\ (last.op = "apply_selected" /\ Applied.kind = "struct-enum-close") =>
          LET p == StructPoint(last.pre, UnmatchedPoint(last.pre, Applied.span[2]))
          IN  last.out = Upto(last.pre, p) \o <<"}", NL>> \o From(last.pre, p)

\* C23 witness: the repair of an unclosed struct was applied and put its '}'
\* in front of a keyword, not at the end of the document
C23_Witness ==
    /\ last.op = "apply_selected"
    /\ Applied.kind = "struct-enum-close"
    /\ StructPoint(last.pre, UnmatchedPoint(last.pre, Applied.span[2])) < Len(last.pre)

====
